---- MODULE Spec2Model ----
(***************************************************************************)
(* webteg-bot: Weblate change feed -> Telegram notifier.                   *)
(*                                                                         *)
(* The repository holds six iterations of the poll entry point             *)
(* (api/check-rss.ts) and one webhook entry point (api/weblate.ts).  Each  *)
(* is a stateless serverless handler.  The variants are named here:        *)
(*   "rss1"      src/unnamed/part_001        RSS feed, 1 h window          *)
(*   "rss2"      src/unnamed/part_000        RSS feed, 2 h window, fallback*)
(*   "multi"     src/api/check-rss.ts:308    JSON API, project list        *)
(*   "filter"    src/unnamed/part_002        component/language filters    *)
(*   "component" src/unnamed/part_003        per-component fetch, sort,    *)
(*                                           dedup                         *)
(*   "subs"      src/api/check-rss.ts:1      subscriptions via API key     *)
(*   "webhook"   src/unnamed/part_004        api/weblate.ts                *)
(*                                                                         *)
(* Time is counted in whole hours.  Strings that the code splits on '/'    *)
(* are sequences of their segments, as String.prototype.split returns      *)
(* them; a missing (undefined) string field is the empty sequence.         *)
(***************************************************************************)
EXTENDS Integers, Sequences, FiniteSets

VARIABLES
    variant,          \* which handler runs
    env,              \* process.env: which configuration values are set
    request,          \* req: method, secret in the x-hub-signature header,
                      \* secret in the query string, body (webhook)
    now,              \* the value new Date() yields during this invocation
    overdue,          \* history: the invocation has run past the soft deadline
    script,           \* the answers the network gives, when they are fixed
    earlier,          \* history: the sends and the response of the invocation
                      \* before this one
    projects,         \* the project list the handler iterates
    pidx,             \* index of the current project in projects
    project,          \* the project descriptor being processed
    componentSlugs,   \* "component": component slugs of the current project
    cidx,             \* "component": index of the component being fetched
    changes,          \* data.results / allChanges / items of the last fetch
    filteredChanges,  \* after the component / language filters
    sortedChanges,    \* "component": filteredChanges after sort()
    uniqueChanges,    \* "component": after the Map-based deduplication
    recentChanges,    \* inside the recency window, capped
    changesToNotify,  \* what the send loop iterates over
    labels,           \* title label of the message of each changesToNotify
    sidx,             \* index in changesToNotify of the message being sent
    attempts,         \* POSTs issued for the message being sent
    sentCount,        \* let sentCount
    outcomes,         \* history: what each send of this project came to
    faults,           \* history: per project, the failures it met
    totalSent,        \* let totalSent
    totalRecent,      \* let totalRecent
    results,          \* const results: the per-project results
    netCalls,         \* history: network calls issued (fetches and sends)
    responses,        \* the HTTP responses written to res
    pc                \* position of the handler

conf == <<variant, env, request, now, overdue, script, earlier>>

selOut == <<changes, filteredChanges, sortedChanges, uniqueChanges,
            recentChanges, changesToNotify, labels>>

compVars == <<componentSlugs, cidx>>

sendVars == <<sidx, attempts, sentCount, outcomes>>

vars == <<conf, projects, pidx, project, compVars, selOut, sendVars, faults,
          totalSent, totalRecent, results, netCalls, responses, pc>>

----------------------------------------------------------------------------
(* Bounds of the model *)

\* longest batch drawn from the full record pool
MaxBatch == 3

\* longest batch of distinct, plain records (exercises the slice(0, 5) cap)
CapBatch == 6

\* most records one project's fetches return during a handler run
MaxFetched == 2

----------------------------------------------------------------------------
(* Program constants *)

WindowSubs == 3
WindowMulti == 2
WindowFilter == 3
WindowComponent == 3
WindowRss2 == 2
WindowRss1 == 1

MaxNotifySubs == 5
MaxNotifyMulti == 5
MaxNotifyFilter == 5
MaxNotifyComponent == 5
MaxItemsRss2 == 5
MaxItemsRss1 == 5

\* new Date(s).getTime() of a string that is no date: NaN
BadDate == -1

PollVariants == {"rss1", "rss2", "multi", "filter", "component", "subs"}

Window(v) ==
    CASE v = "subs" -> WindowSubs
      [] v = "multi" -> WindowMulti
      [] v = "filter" -> WindowFilter
      [] v = "component" -> WindowComponent
      [] v = "rss2" -> WindowRss2
      [] v = "rss1" -> WindowRss1

MaxNotify(v) ==
    CASE v = "subs" -> MaxNotifySubs
      [] v = "multi" -> MaxNotifyMulti
      [] v = "filter" -> MaxNotifyFilter
      [] v = "component" -> MaxNotifyComponent
      [] v = "rss2" -> MaxItemsRss2
      [] v = "rss1" -> MaxItemsRss1

----------------------------------------------------------------------------
(* Array helpers *)

Min(a, b) == IF a < b THEN a ELSE b

\* Array.prototype.slice(0, n)
Slice(s, n) == SubSeq(s, 1, Min(n, Len(s)))

----------------------------------------------------------------------------
(* Strings of the model: the segments split('/') yields *)

NoMatch == ""

\* strings of the pool that match [a-z]{2}(?:_[A-Z]{2})?
LangCodes == {"en", "tr", "pt_BR"}

IsLangCode(seg) == seg \in LangCodes

\* String.prototype.includes over the component names of the pool
Substrings ==
    { <<"app", "app">>, <<"morse-app", "app">>, <<"morse-app", "morse-app">>,
      <<"website", "website">>, <<"app", "">>, <<"morse-app", "">>,
      <<"website", "">>, <<"", "">> }

Includes(whole, part) == <<whole, part>> \in Substrings

\* change.translation?.match(/\/([a-z]{2}(?:_[A-Z]{2})?)\//): the first segment
\* that is a language code with a '/' before and after it
TranslationLang(t) ==
    LET hits == { i \in 2..(Len(t) - 1) : IsLangCode(t[i]) }
    IN  IF hits = {} THEN NoMatch
        ELSE t[CHOOSE i \in hits : \A j \in hits : i <= j]

\* change.url?.match(/\/([a-z]{2}(?:_[A-Z]{2})?)\/$/): a language code as the
\* last segment before a trailing '/'
UrlLang(u) ==
    IF Len(u) >= 3 /\ u[Len(u)] = "" /\ IsLangCode(u[Len(u) - 1])
    THEN u[Len(u) - 1]
    ELSE NoMatch

\* langMatch ? langMatch[1] : null
ChangeLang(c) ==
    IF TranslationLang(c.translation) # NoMatch
    THEN TranslationLang(c.translation)
    ELSE UrlLang(c.url)

\* componentUrl.match(/\/projects\/([^/]+)\//): the segment after the first
\* "/projects/" that is non-empty and followed by '/'
ComponentProjectSlug(comp) ==
    LET hits == { i \in 2..(Len(comp) - 2) :
                    comp[i] = "projects" /\ comp[i + 1] # "" }
    IN  IF hits = {} THEN NoMatch
        ELSE comp[(CHOOSE i \in hits : \A j \in hits : i <= j) + 1]

\* componentUrl.split('/').pop() || ''
ComponentLastSegment(comp) == IF comp = <<>> THEN "" ELSE comp[Len(comp)]

----------------------------------------------------------------------------
(* The filters of the "filter" and "component" variants *)

\* part_002: data.results.filter(...) on the component reference
KeepsComponent(p, c) ==
    /\ ~(ComponentProjectSlug(c.component) # NoMatch
         /\ ComponentProjectSlug(c.component) # p.slug)
    /\ (p.componentFilter # {} =>
          \E allowed \in p.componentFilter :
             Includes(ComponentLastSegment(c.component), allowed))

ComponentFilter(p, s) == SelectSeq(s, LAMBDA c : KeepsComponent(p, c))

\* a language filter that drops the record no code is found in
KeepsLanguageFailClosed(p, c) == ChangeLang(c) \in p.languageFilter

\* the callback of the language filter: no code found keeps the record
KeepsLanguage(p, c) ==
    IF ChangeLang(c) = NoMatch THEN TRUE ELSE ChangeLang(c) \in p.languageFilter

\* applied only when project.languageFilter is set and non-empty
LanguageFilter(p, s) ==
    IF p.languageFilter # {}
    THEN SelectSeq(s, LAMBDA c : KeepsLanguage(p, c))
    ELSE s

----------------------------------------------------------------------------
(* Sorting and deduplication of the "component" variant *)

\* the comparator new Date(b.timestamp) - new Date(a.timestamp) puts c after
\* every record at least as new (Array.prototype.sort is stable)
RECURSIVE InsertDesc(_, _)
InsertDesc(sorted, c) ==
    IF sorted = <<>> THEN <<c>>
    ELSE IF Head(sorted).timestamp >= c.timestamp
         THEN <<Head(sorted)>> \o InsertDesc(Tail(sorted), c)
         ELSE <<c>> \o sorted

RECURSIVE StableSortDesc(_)
StableSortDesc(s) ==
    IF s = <<>> THEN <<>>
    ELSE InsertDesc(StableSortDesc(SubSeq(s, 1, Len(s) - 1)), s[Len(s)])

Reorderings(s) ==
    { [i \in 1..Len(s) |-> s[f[i]]] :
        f \in { g \in [1..Len(s) -> 1..Len(s)] :
                  \A i, j \in 1..Len(s) : g[i] = g[j] => i = j } }

\* filteredChanges.sort(...): with an unparsable timestamp the comparator
\* returns NaN and is inconsistent, so the order is implementation-defined
SortOutcomes(s) ==
    IF \A i \in 1..Len(s) : s[i].timestamp # BadDate
    THEN {StableSortDesc(s)}
    ELSE Reorderings(s)

\* a deduplication by splice() inside a forward loop: after a removal the
\* loop index steps over the record that moved into the freed slot
RECURSIVE SpliceScan(_, _)
SpliceScan(seen, rest) ==
    IF rest = <<>> THEN <<>>
    ELSE IF Head(rest).id \in seen
         THEN IF Len(rest) >= 2
              THEN <<rest[2]>> \o SpliceScan(seen \cup {rest[2].id},
                                             SubSeq(rest, 3, Len(rest)))
              ELSE <<>>
         ELSE <<Head(rest)>> \o SpliceScan(seen \cup {Head(rest).id}, Tail(rest))

UniqueChangesSkipping(s) == SpliceScan({}, s)

\* Map.prototype.set on the insertion-ordered entries: an existing key keeps
\* its position and takes the new value
RECURSIVE MapSet(_, _)
MapSet(entries, c) ==
    IF entries = <<>> THEN <<c>>
    ELSE IF Head(entries).id = c.id
         THEN <<c>> \o Tail(entries)
         ELSE <<Head(entries)>> \o MapSet(Tail(entries), c)

\* Array.from(new Map(filteredChanges.map(c => [c.id, c])).values())
RECURSIVE UniqueChanges(_)
UniqueChanges(s) ==
    IF s = <<>> THEN <<>>
    ELSE MapSet(UniqueChanges(SubSeq(s, 1, Len(s) - 1)), s[Len(s)])

----------------------------------------------------------------------------
(* Recency filter, cap and fallback *)

\* the window taken one hour too wide
WithinWindowOffByOne(v, t, c) ==
    /\ c.timestamp # BadDate
    /\ t - c.timestamp <= Window(v) + 1

\* hoursDiff <= window; a comparison with NaN is false
WithinWindow(v, t, c) ==
    /\ c.timestamp # BadDate
    /\ t - c.timestamp <= Window(v)

\* the records the filters leave: the input of the recency filter, except in
\* "component", where sort and dedup come in between
Filtered(v, p, s) ==
    CASE v = "filter" -> LanguageFilter(p, ComponentFilter(p, s))
      [] v = "component" -> LanguageFilter(p, s)
      [] v = "rss2" -> Slice(s, MaxItemsRss2)
      [] v = "rss1" -> Slice(s, MaxItemsRss1)
      [] OTHER -> s

\* the recency filter without its slice(0, 5)
RecentChangesUncapped(v, t, cands) ==
    SelectSeq(cands, LAMBDA c : WithinWindow(v, t, c))

\* changes.filter(hoursDiff <= window).slice(0, 5)
RecentChanges(v, t, cands) ==
    LET recent == SelectSeq(cands, LAMBDA c : WithinWindow(v, t, c))
    IN  IF v \in {"rss1", "rss2"} THEN recent ELSE Slice(recent, MaxNotify(v))

\* a fallback that shows the first two records
FallbackOfTwo(v, cands, recent) ==
    IF Len(recent) > 0 THEN recent
    ELSE IF v = "rss1" THEN <<>>
    ELSE Slice(cands, 2)

\* recentChanges.length > 0 ? recentChanges : changes.slice(0, 1)
ChangesToNotify(v, cands, recent) ==
    IF Len(recent) > 0 THEN recent
    ELSE IF v = "rss1" THEN <<>>
    ELSE Slice(cands, 1)

\* isRecent ? 'Güncellemesi' : 'Son Değişiklik'
TitleLabel(isRecent) == IF isRecent THEN "Guncellemesi" ELSE "Son Degisiklik"

Labels(recent, notify) ==
    [i \in 1..Len(notify) |-> TitleLabel(Len(recent) > 0)]

----------------------------------------------------------------------------
(* Message rendering.  A text is the sequence of its characters; a field  *)
(* the payload does not carry is Undefined.                                *)

Undefined == <<"undefined">>

\* x || fallback
OrElse(x, fallback) == IF x = Undefined \/ x = <<>> THEN fallback ELSE x

UpperCase ==
    <<"A", "B", "C", "D", "E", "F", "G", "H", "I", "J", "K", "L", "M",
      "N", "O", "P", "Q", "R", "S", "T", "U", "V", "W", "X", "Y", "Z">>
LowerCase ==
    <<"a", "b", "c", "d", "e", "f", "g", "h", "i", "j", "k", "l", "m",
      "n", "o", "p", "q", "r", "s", "t", "u", "v", "w", "x", "y", "z">>

\* String.prototype.toLowerCase
ToLowerCase(t) ==
    [i \in 1..Len(t) |->
        IF \E k \in 1..Len(UpperCase) : UpperCase[k] = t[i]
        THEN LowerCase[CHOOSE k \in 1..Len(UpperCase) : UpperCase[k] = t[i]]
        ELSE t[i]]

\* String.prototype.includes on texts
TextIncludes(t, key) ==
    \E i \in 0..(Len(t) - Len(key)) : SubSeq(t, i + 1, i + Len(key)) = key

KeyTranslation == <<"t", "r", "a", "n", "s", "l", "a", "t", "i", "o", "n">>
KeyNew == <<"n", "e", "w">>
KeyComment == <<"c", "o", "m", "m", "e", "n", "t">>
KeySuggestion == <<"s", "u", "g", "g", "e", "s", "t", "i", "o", "n">>
KeyApproved == <<"a", "p", "p", "r", "o", "v", "e", "d">>
KeySource == <<"s", "o", "u", "r", "c", "e">>
KeyResource == <<"r", "e", "s", "o", "u", "r", "c", "e">>
KeyPushed == <<"p", "u", "s", "h", "e", "d">>
KeyChanged == <<"c", "h", "a", "n", "g", "e", "d">>

Bilinmiyor == <<"B", "i", "l", "i", "n", "m", "i", "y", "o", "r">>

\* the if statements on action.includes(...), in source order
ActionTable(v) ==
    <<[key |-> KeyTranslation, emoji |-> "memo"],
      [key |-> KeyNew, emoji |-> "sparkles"],
      [key |-> KeyComment, emoji |-> "speech"],
      [key |-> KeySuggestion, emoji |-> "bulb"],
      [key |-> KeyApproved, emoji |-> "check"]>>
    \o (IF v \in {"filter", "component", "subs"}
        THEN <<[key |-> KeySource, emoji |-> "page"],
               [key |-> KeyResource, emoji |-> "cycle"]>>
        ELSE <<>>)
    \o (IF v \in {"component", "subs"}
        THEN <<[key |-> KeyPushed, emoji |-> "up"],
               [key |-> KeyChanged, emoji |-> "cycle"]>>
        ELSE <<>>)

\* let actionEmoji = (bolt); every matching if overwrites it, so the last
\* match of the table stands
ActionEmoji(v, name) ==
    LET action == ToLowerCase(OrElse(name, <<>>))
        table == ActionTable(v)
        hits == { i \in 1..Len(table) : TextIncludes(action, table[i].key) }
    IN  IF hits = {} THEN "bolt"
        ELSE table[CHOOSE i \in hits : \A j \in hits : j <= i].emoji

TargetLimit == 100

Ellipsis == <<".", ".", ".">>

\* the marker added from 100 characters on
TargetBlockEager(target) ==
    IF target = Undefined \/ target = <<>> THEN <<>>
    ELSE SubSeq(target, 1, Min(TargetLimit, Len(target)))
         \o (IF Len(target) >= TargetLimit THEN Ellipsis ELSE <<>>)

\* change.target ? target.substring(0, 100) + (target.length > 100 ? '...' : '') : ''
TargetBlock(target) ==
    IF target = Undefined \/ target = <<>> THEN <<>>
    ELSE SubSeq(target, 1, Min(TargetLimit, Len(target)))
         \o (IF Len(target) > TargetLimit THEN Ellipsis ELSE <<>>)

\* split('/').filter(Boolean).pop() of a reference, given as its segments
LastNonEmpty(segs) ==
    LET full == { i \in 1..Len(segs) : segs[i] # "" }
    IN  IF full = {} THEN ""
        ELSE segs[CHOOSE i \in full : \A j \in full : j <= i]

\* what the message shows of a reference: "multi" prints it whole, "filter"
\* its split('/').pop(), the others the last non-empty segment; an empty
\* name gives way to the fallback
ShownName(v, ref, fallback) ==
    LET name == CASE v = "multi" -> ref
                  [] v = "filter" -> IF ComponentLastSegment(ref) = "" THEN <<>>
                                     ELSE <<ComponentLastSegment(ref)>>
                  [] OTHER -> IF LastNonEmpty(ref) = "" THEN <<>>
                              ELSE <<LastNonEmpty(ref)>>
    IN  IF name = <<>> THEN <<fallback>> ELSE name

\* const componentName
ComponentName(v, c) == ShownName(v, c.component, "Bilinmiyor")

\* const userName (the user names of the pool hold no ':')
UserName(v, c) == ShownName(v, c.user, "Anonim")

\* change.action_name.toLowerCase() of "multi" on a record without action_name
RenderThrows(v, c) == v = "multi" /\ c.action_name = Undefined

\* const message, by its parts (the RSS variants render title and link only)
Message(v, p, c, label) ==
    IF v \in {"rss1", "rss2"}
    THEN [title |-> label, project |-> "Metrolist", component |-> <<>>,
          action |-> <<>>, actionEmoji |-> "bolt", user |-> <<>>,
          target |-> <<>>]
    ELSE [title |-> label, project |-> p.displayName,
          component |-> ComponentName(v, c),
          action |-> IF v = "multi" THEN c.action_name
                     ELSE OrElse(c.action_name, Bilinmiyor),
          actionEmoji |-> ActionEmoji(v, c.action_name),
          user |-> UserName(v, c),
          target |-> TargetBlock(c.target)]

----------------------------------------------------------------------------
(* Inputs *)

ComponentApp ==
    <<"https:", "", "hosted.weblate.org", "api", "components", "metrolist", "app", "">>
ComponentForeign ==
    <<"https:", "", "hosted.weblate.org", "projects", "f-droid", "website", "">>
TranslationEn ==
    <<"https:", "", "hosted.weblate.org", "api", "translations", "metrolist", "app", "en", "">>
TranslationTr ==
    <<"https:", "", "hosted.weblate.org", "api", "translations", "metrolist", "app", "tr", "">>
ChangeUrl ==
    <<"https:", "", "hosted.weblate.org", "api", "changes", "7", "">>

UserAlice ==
    <<"https:", "", "hosted.weblate.org", "api", "users", "alice", "">>

CommentAdded ==
    <<"C", "o", "m", "m", "e", "n", "t", " ", "a", "d", "d", "e", "d">>

\* a text of n characters, no two neighbours alike
Text(n) == [i \in 1..n |-> <<"x", "y", "z">>[(i % 3) + 1]]

Change(id, ts) ==
    [id |-> id, timestamp |-> ts, component |-> ComponentApp,
     translation |-> TranslationEn, url |-> ChangeUrl,
     action_name |-> CommentAdded, user |-> UserAlice, target |-> Text(2)]

Ids == {1, 2}
ValidTimes == {1, 2, 4}
RefTimes == {5, 6}

\* records of either id at every age, one with an unparsable timestamp, one
\* of another project and one in another language
RecordPool ==
    { Change(id, ts) : id \in Ids, ts \in ValidTimes }
    \cup { Change(1, BadDate),
           [Change(3, 4) EXCEPT !.component = ComponentForeign],
           [Change(3, 4) EXCEPT !.translation = TranslationTr] }

SeqsUpTo(S, n) == UNION { [1..k -> S] : k \in 0..n }

\* batches of distinct ids whose records are each one hour old or old
PlainBatches(t) ==
    UNION { { [i \in 1..k |-> Change(i, IF i \in fresh THEN t - 1 ELSE 1)] :
                fresh \in SUBSET (1..k) } : k \in (MaxBatch + 1)..CapBatch }

Batches(t) == (SeqsUpTo(RecordPool, MaxBatch) \ {<<>>}) \cup PlainBatches(t)

\* what one fetch of a handler run returns: up to MaxFetched different
\* records, fresh ones of two ages and one too old
FetchPool ==
    { Change(1, 4), Change(2, 3), Change(2, 1),
      [Change(3, 4) EXCEPT !.translation = TranslationTr] }

FetchBatches ==
    { s \in SeqsUpTo(FetchPool, MaxFetched) :
        \A i, j \in 1..Len(s) : s[i] = s[j] => i = j }

\* part_002:66 and part_003:94 set languageFilter ['en'] and, in part_003,
\* components []; the other variants have no filters
Descriptor(v, slug, name, comps) ==
    [slug |-> slug, displayName |-> name,
     languageFilter |-> IF v \in {"filter", "component"} THEN {"en"} ELSE {},
     componentFilter |-> {},
     components |-> comps]

Metrolist(v) == Descriptor(v, "metrolist", "Metrolist", <<>>)
FDroid(v) == Descriptor(v, "f-droid", "F-Droid", <<"app">>)

ProjectLists(v) == { <<Metrolist(v)>>, <<Metrolist(v), FDroid(v)>>,
                     <<FDroid(v), Metrolist(v)>> }

\* results of GET /api/projects/<slug>/components/
ComponentLists == { <<>>, <<"app">>, <<"app", "website">> }

\* results of GET /api/user/subscriptions/: project-level and
\* component-level subscriptions
Subscription(p, onComponent) == [project |-> p, component |-> onComponent]

SubscriptionLists ==
    { <<>>,
      <<Subscription(Metrolist("subs"), FALSE)>>,
      <<Subscription(Metrolist("subs"), TRUE)>>,
      <<Subscription(Metrolist("subs"), FALSE), Subscription(FDroid("subs"), FALSE)>>,
      <<Subscription(FDroid("subs"), TRUE), Subscription(Metrolist("subs"), FALSE)>> }

\* an answer of the network: 2xx ("ok"), non-2xx ("rejected") or no answer
\* at all ("throws"); batch: the records of a 2xx of the change source;
\* json: the body of an answer of the messaging endpoint parses
Answer(kind, batch, json) == [kind |-> kind, batch |-> batch, json |-> json]

\* the network answers as it likes
NoScript == [fetch |-> Answer("any", <<>>, TRUE), sends |-> <<>>]

FetchAnswers ==
    { Answer("ok", b, TRUE) : b \in FetchBatches }
        \cup { Answer("rejected", <<>>, TRUE), Answer("throws", <<>>, TRUE) }

SendAnswers ==
    { Answer(k, <<>>, j) : k \in {"ok", "rejected"}, j \in BOOLEAN }
        \cup { Answer("throws", <<>>, TRUE) }

\* one answer to the fetch of the change list and one to each send that may
\* follow it
Scripts ==
    { [fetch |-> f, sends |-> a] :
        f \in FetchAnswers,
        a \in { q \in SeqsUpTo(SendAnswers, MaxFetched) : Len(q) = MaxFetched } }

Environments(v) ==
    [token : BOOLEAN, chat : BOOLEAN,
     apiKey : IF v = "subs" THEN BOOLEAN ELSE {FALSE},
     secret : IF v = "webhook" THEN {"", "s3cret"} ELSE {""}]

Requests(v) ==
    IF v = "webhook"
    THEN [method : {"POST", "GET", "PUT"}, secret : {"", "s3cret", "wrong"},
          query : {"", "s3cret", "wrong"},
          body : {"payload", "none"}]
    ELSE [method : {"GET"}, secret : {""}, query : {""}, body : {"none"}]

----------------------------------------------------------------------------
(* Response bodies and per-project results *)

BaseResponse ==
    [status |-> 0, keys |-> {}, error |-> "", has_token |-> FALSE,
     has_chat_id |-> FALSE, success |-> FALSE, total_notifications |-> 0,
     total_recent_changes |-> 0, changes |-> 0, recent |-> 0,
     projects |-> <<>>]

ErrorResponse(status, error) ==
    [BaseResponse EXCEPT !.status = status, !.keys = {"error"}, !.error = error]

\* res.status(500).json({ error: 'Missing configuration', has_token, has_chat_id })
\* part_001:17 and part_004:29 send the error alone
MissingConfiguration(v, e) ==
    IF v \in {"rss1", "webhook"}
    THEN ErrorResponse(500, "Missing configuration")
    ELSE [ErrorResponse(500, "Missing configuration") EXCEPT
            !.keys = {"error", "has_token", "has_chat_id"},
            !.has_token = e.token, !.has_chat_id = e.chat]

\* the 200 of the project-list variants
Summary(res, sent, recent) ==
    [BaseResponse EXCEPT
       !.status = 200,
       !.keys = {"success", "total_notifications", "total_recent_changes",
                 "projects"},
       !.success = TRUE, !.total_notifications = sent,
       !.total_recent_changes = recent, !.projects = res]

\* check-rss.ts:135: no subscribed project
NoSubscriptions ==
    [BaseResponse EXCEPT
       !.status = 200, !.keys = {"success", "total_notifications", "projects"},
       !.success = TRUE]

\* the 200 of the RSS variants: changes is the number of items notified
FeedSummary(v, notified, recent) ==
    [BaseResponse EXCEPT
       !.status = 200,
       !.keys = IF v = "rss2" THEN {"success", "changes", "recent"}
                ELSE {"success", "changes"},
       !.success = TRUE, !.changes = notified,
       !.recent = IF v = "rss2" THEN recent ELSE 0]

\* part_004:107
WebhookSent ==
    [BaseResponse EXCEPT !.status = 200, !.keys = {"success"}, !.success = TRUE]

BaseResult ==
    [project |-> "", keys |-> {}, success |-> FALSE, error |-> "",
     changes |-> 0, recent |-> 0, total |-> 0]

\* results.push({ project, success: false, error })
FailResult(p, error) ==
    [BaseResult EXCEPT !.project = p.displayName,
       !.keys = {"project", "success", "error"}, !.error = error]

\* results.push({ project, success: true, changes: 0, message: 'Değişiklik yok' })
EmptyResult(p) ==
    [BaseResult EXCEPT !.project = p.displayName,
       !.keys = {"project", "success", "changes"}, !.success = TRUE]

\* results.push({ project, success: true, changes: sentCount, recent, total })
DoneResult(p, sent, recent, total) ==
    [BaseResult EXCEPT !.project = p.displayName,
       !.keys = {"project", "success", "changes", "recent", "total"},
       !.success = TRUE, !.changes = sent, !.recent = recent, !.total = total]

\* the check written with && for ||
ConfigMissingBoth(e) == ~e.token /\ ~e.chat

\* !BOT_TOKEN || !CHAT_ID
ConfigMissing(e) == ~e.token \/ ~e.chat

ListVariants == {"multi", "filter", "component", "subs"}
FeedVariants == {"rss1", "rss2"}
Variants == ListVariants \cup FeedVariants \cup {"webhook"}

\* the variants that send through sendTelegramMessage
HelperVariants == {"subs", "filter", "component"}

----------------------------------------------------------------------------
(* The code between the fetch and the send loop *)

\* everything the selection computes, given the outcome of sort()
Selection(v, p, t, s, sorted) ==
    LET filt == Filtered(v, p, s)
        uniq == IF v = "component" THEN UniqueChanges(sorted) ELSE <<>>
        cands == IF v = "component" THEN uniq ELSE filt
        recent == RecentChanges(v, t, cands)
        notify == ChangesToNotify(v, cands, recent)
    IN  [filtered |-> filt,
         sorted |-> IF v = "component" THEN sorted ELSE <<>>,
         unique |-> uniq,
         candidates |-> cands,
         recent |-> recent,
         notify |-> notify,
         labels |-> Labels(recent, notify)]

\* the sequence the recency filter and the fallback read
Candidates == IF variant = "component" THEN uniqueChanges ELSE filteredChanges

----------------------------------------------------------------------------
(* Fragments shared by the steps of the handlers *)

\* a return that writes nothing to res
ReturnsSilently(resp) ==
    /\ responses' = responses
    /\ pc' = "done"

\* return res.status(...).json(...)
Respond(resp) ==
    /\ responses' = Append(responses, resp)
    /\ pc' = "done"

Bump(b) == IF b THEN 1 ELSE 0

\* the message of the send in flight
Outcome(sent) ==
    IF variant = "webhook"
    THEN [id |-> 0, label |-> "Bildirimi", sent |-> sent, attempts |-> attempts]
    ELSE [id |-> changesToNotify[sidx].id, label |-> labels[sidx],
          sent |-> sent, attempts |-> attempts,
          message |-> Message(variant, project, changesToNotify[sidx],
                              labels[sidx])]

AddFaults(f) == faults' = [faults EXCEPT ![pidx] = @ \cup f]

\* the send returned and the loop goes on: count, pace, next message or out
Proceed(sent, f) ==
    /\ outcomes' = Append(outcomes, Outcome(sent))
    /\ sentCount' = sentCount + Bump(sent)
    /\ totalSent' = totalSent + Bump(sent)
    /\ AddFaults(f)
    /\ IF sidx < Len(changesToNotify)
       THEN IF RenderThrows(variant, changesToNotify[sidx + 1])
            THEN /\ results' = Append(results, FailResult(project, "TypeError"))
                 /\ pc' = "loop"
                 /\ UNCHANGED <<sidx, attempts, netCalls>>
            ELSE /\ sidx' = sidx + 1
                 /\ attempts' = 1
                 /\ netCalls' = netCalls + 1
                 /\ pc' = "send"
                 /\ UNCHANGED results
       ELSE /\ pc' = "loopDone"
            /\ UNCHANGED <<sidx, attempts, netCalls, results>>
    /\ UNCHANGED responses

\* "multi": the exception lands in the catch of the project's try
Caught(error, f) ==
    /\ outcomes' = Append(outcomes, Outcome(FALSE))
    /\ AddFaults(f)
    /\ results' = Append(results, FailResult(project, error))
    /\ pc' = "loop"
    /\ UNCHANGED <<sentCount, totalSent, sidx, attempts, netCalls, responses>>

\* the handler answers and returns from inside the send loop
Abort(resp, sent, f) ==
    /\ outcomes' = Append(outcomes, Outcome(sent))
    /\ AddFaults(f)
    /\ Respond(resp)
    /\ UNCHANGED <<sentCount, totalSent, sidx, attempts, netCalls, results>>

----------------------------------------------------------------------------
(* The handlers *)

Init ==
    /\ variant \in Variants
    /\ env \in Environments(variant)
    /\ request \in Requests(variant)
    /\ now \in RefTimes
    /\ overdue = FALSE
    /\ script = NoScript
    /\ earlier = <<>>
    /\ projects \in IF variant \in {"multi", "filter", "component"}
                    THEN ProjectLists(variant) ELSE {<<>>}
    /\ pidx = 0
    /\ project = Metrolist(variant)
    /\ componentSlugs = <<>>
    /\ cidx = 0
    /\ changes = <<>>
    /\ filteredChanges = <<>>
    /\ sortedChanges = <<>>
    /\ uniqueChanges = <<>>
    /\ recentChanges = <<>>
    /\ changesToNotify = <<>>
    /\ labels = <<>>
    /\ sidx = 0
    /\ attempts = 0
    /\ sentCount = 0
    /\ outcomes = <<>>
    /\ faults = <<>>
    /\ totalSent = 0
    /\ totalRecent = 0
    /\ results = <<>>
    /\ netCalls = 0
    /\ responses = <<>>
    /\ pc = "start"

\* the check written against GET alone
MethodIsGet(v, r) == v = "webhook" /\ r.method = "GET"

\* part_004: if (req.method !== 'POST')
MethodNotAllowed(v, r) == v = "webhook" /\ r.method # "POST"

\* the query parameter read ahead of the header
QueryElseHeader(r) == IF r.query # "" THEN r.query ELSE r.secret

\* req.headers['x-hub-signature'] || req.query.secret
ProvidedSecret(r) == IF r.secret # "" THEN r.secret ELSE r.query

\* entry: method and configuration checks, then the first network call
Start ==
    /\ pc = "start"
    /\ IF MethodNotAllowed(variant, request)
       THEN /\ Respond(ErrorResponse(405, "Method not allowed"))
            /\ UNCHANGED <<pidx, faults, attempts, netCalls>>
       ELSE IF ConfigMissing(env)
       THEN /\ Respond(MissingConfiguration(variant, env))
            /\ UNCHANGED <<pidx, faults, attempts, netCalls>>
       ELSE IF variant = "subs" /\ ~env.apiKey
       THEN /\ Respond(ErrorResponse(500, "Missing WEBLATE_API_KEY"))
            /\ UNCHANGED <<pidx, faults, attempts, netCalls>>
       ELSE IF variant = "webhook" /\ env.secret # ""
               /\ ProvidedSecret(request) # env.secret
       THEN /\ Respond(ErrorResponse(403, "Invalid secret"))
            /\ UNCHANGED <<pidx, faults, attempts, netCalls>>
       ELSE IF variant = "webhook" /\ request.body = "none"
       THEN /\ Respond(ErrorResponse(500, "Internal server error"))
            /\ UNCHANGED <<pidx, faults, attempts, netCalls>>
       ELSE IF variant = "webhook"
       THEN /\ pc' = "send"
            /\ pidx' = 1
            /\ faults' = <<{}>>
            /\ attempts' = 1
            /\ netCalls' = netCalls + 1
            /\ UNCHANGED responses
       ELSE IF variant \in FeedVariants
       THEN /\ pc' = "fetch"
            /\ pidx' = 1
            /\ faults' = <<{}>>
            /\ netCalls' = netCalls + 1
            /\ UNCHANGED <<attempts, responses>>
       ELSE IF variant = "subs"
       THEN /\ pc' = "subscriptions"
            /\ netCalls' = netCalls + 1
            /\ UNCHANGED <<pidx, faults, attempts, responses>>
       ELSE /\ pc' = "loop"
            /\ UNCHANGED <<pidx, faults, attempts, netCalls, responses>>
    /\ UNCHANGED <<conf, projects, project, compVars, selOut, sidx, sentCount,
                   outcomes, totalSent, totalRecent, results>>

\* getUserSubscriptions returned data.results: keep the project-level ones
SubscriptionsOk(list) ==
    /\ pc = "subscriptions"
    /\ LET subs == SelectSeq(list, LAMBDA s : ~s.component)
       IN  /\ projects' = [i \in 1..Len(subs) |-> subs[i].project]
           /\ IF subs = <<>>
              THEN Respond(NoSubscriptions)
              ELSE pc' = "loop" /\ UNCHANGED responses
    /\ UNCHANGED <<conf, pidx, project, compVars, selOut, sendVars, faults,
                   totalSent, totalRecent, results, netCalls>>

\* getUserSubscriptions got a non-2xx or threw: it returns []
SubscriptionsFail ==
    /\ pc = "subscriptions"
    /\ projects' = <<>>
    /\ Respond(NoSubscriptions)
    /\ UNCHANGED <<conf, pidx, project, compVars, selOut, sendVars, faults,
                   totalSent, totalRecent, results, netCalls>>

\* for (const project of projects): the next project, up to its first fetch
BeginProject ==
    /\ pc = "loop"
    /\ pidx < Len(projects)
    /\ pidx' = pidx + 1
    /\ project' = projects[pidx + 1]
    /\ faults' = Append(faults, {})
    /\ netCalls' = netCalls + 1
    /\ IF variant = "component"
       THEN IF projects[pidx + 1].components = <<>>
            THEN pc' = "components" /\ componentSlugs' = <<>> /\ cidx' = 0
            ELSE /\ pc' = "componentFetch"
                 /\ componentSlugs' = projects[pidx + 1].components
                 /\ cidx' = 1
       ELSE pc' = "fetch" /\ UNCHANGED compVars
    /\ changes' = <<>>
    /\ filteredChanges' = <<>>
    /\ sortedChanges' = <<>>
    /\ uniqueChanges' = <<>>
    /\ recentChanges' = <<>>
    /\ changesToNotify' = <<>>
    /\ labels' = <<>>
    /\ sidx' = 0
    /\ attempts' = 0
    /\ sentCount' = 0
    /\ outcomes' = <<>>
    /\ UNCHANGED <<conf, projects, totalSent, totalRecent, results, responses>>

\* the loop is over: res.status(200).json({ success: true, ... })
Summarize ==
    /\ pc = "loop"
    /\ pidx >= Len(projects)
    /\ Respond(Summary(results, totalSent, totalRecent))
    /\ UNCHANGED <<conf, projects, pidx, project, compVars, selOut, sendVars,
                   faults, totalSent, totalRecent, results, netCalls>>

\* "component": getProjectComponents returned the slugs
ComponentsOk(list) ==
    /\ pc = "components"
    /\ IF list = <<>>
       THEN /\ results' = Append(results, FailResult(project, "No components found"))
            /\ pc' = "loop"
            /\ UNCHANGED <<compVars, netCalls>>
       ELSE /\ componentSlugs' = list
            /\ cidx' = 1
            /\ netCalls' = netCalls + 1
            /\ pc' = "componentFetch"
            /\ UNCHANGED results
    /\ UNCHANGED <<conf, projects, pidx, project, selOut, sendVars, faults,
                   totalSent, totalRecent, responses>>

\* "component": getProjectComponents got a non-2xx or threw: it returns []
ComponentsFail(thrown) ==
    /\ pc = "components"
    /\ AddFaults({IF thrown THEN "fetch failed" ELSE "fetch rejected"})
    /\ results' = Append(results, FailResult(project, "No components found"))
    /\ pc' = "loop"
    /\ UNCHANGED <<conf, projects, pidx, project, compVars, selOut, sendVars,
                   totalSent, totalRecent, netCalls, responses>>

\* "component": on to the next component, or the collection is complete
NextComponent ==
    IF cidx < Len(componentSlugs)
    THEN /\ cidx' = cidx + 1
         /\ netCalls' = netCalls + 1
         /\ pc' = "componentFetch"
    ELSE /\ pc' = "fetched"
         /\ UNCHANGED <<cidx, netCalls>>

\* "component": allChanges.push(...data.results)
ComponentFetchOk(batch) ==
    /\ pc = "componentFetch"
    /\ Len(changes) + Len(batch) <= MaxFetched
    /\ changes' = changes \o batch
    /\ NextComponent
    /\ UNCHANGED <<conf, projects, pidx, project, componentSlugs,
                   filteredChanges, sortedChanges, uniqueChanges,
                   recentChanges, changesToNotify, labels, sendVars, faults,
                   totalSent, totalRecent, results, responses>>

\* "component": a non-2xx (continue) or an exception (catch, continue)
\* skips the component
ComponentFetchFail(thrown) ==
    /\ pc = "componentFetch"
    /\ AddFaults({IF thrown THEN "fetch failed" ELSE "fetch rejected"})
    /\ NextComponent
    /\ UNCHANGED <<conf, projects, pidx, project, componentSlugs, selOut,
                   sendVars, totalSent, totalRecent, results, responses>>

\* the change list (the feed) arrived with a 2xx
FetchOk(batch) ==
    /\ pc = "fetch"
    /\ changes' = batch
    /\ pc' = "fetched"
    /\ UNCHANGED <<conf, projects, pidx, project, compVars, filteredChanges,
                   sortedChanges, uniqueChanges, recentChanges,
                   changesToNotify, labels, sendVars, faults, totalSent,
                   totalRecent, results, netCalls, responses>>

\* the source answered non-2xx ("rss1" does not look at the status and reads
\* the error page, which holds no item)
FetchRejected ==
    /\ pc = "fetch"
    /\ AddFaults({"fetch rejected"})
    /\ IF variant = "rss1"
       THEN pc' = "fetched" /\ UNCHANGED <<results, responses>>
       ELSE IF variant = "rss2"
       THEN Respond(ErrorResponse(500, "RSS check failed")) /\ UNCHANGED results
       ELSE /\ results' = Append(results, FailResult(project, "HTTP 503"))
            /\ pc' = "loop"
            /\ UNCHANGED responses
    /\ UNCHANGED <<conf, projects, pidx, project, compVars, selOut, sendVars,
                   totalSent, totalRecent, netCalls>>

\* fetch() rejected, or reading the body threw
FetchThrows ==
    /\ pc = "fetch"
    /\ AddFaults({"fetch failed"})
    /\ IF variant \in FeedVariants
       THEN Respond(ErrorResponse(500, "RSS check failed")) /\ UNCHANGED results
       ELSE /\ results' = Append(results, FailResult(project, "fetch failed"))
            /\ pc' = "loop"
            /\ UNCHANGED responses
    /\ UNCHANGED <<conf, projects, pidx, project, compVars, selOut, sendVars,
                   totalSent, totalRecent, netCalls>>

\* an empty change list that goes to the next project with a bare continue
NoChangesUnreported ==
    /\ pc = "fetched"
    /\ changes = <<>>
    /\ variant # "rss1"
    /\ IF variant = "rss2"
       THEN Respond(FeedSummary("rss1", 0, 0))
       ELSE pc' = "loop" /\ UNCHANGED responses
    /\ UNCHANGED <<conf, projects, pidx, project, compVars, selOut, sendVars,
                   faults, totalSent, totalRecent, netCalls, results>>

\* nothing fetched: 'Değişiklik yok' ("rss1" has no such exit)
NoChanges ==
    /\ pc = "fetched"
    /\ changes = <<>>
    /\ variant # "rss1"
    /\ IF variant = "rss2"
       THEN Respond(FeedSummary("rss1", 0, 0)) /\ UNCHANGED results
       ELSE /\ results' = Append(results, EmptyResult(project))
            /\ pc' = "loop"
            /\ UNCHANGED responses
    /\ UNCHANGED <<conf, projects, pidx, project, compVars, selOut, sendVars,
                   faults, totalSent, totalRecent, netCalls>>

\* filters, sort, dedup, recency window, cap and fallback
Select ==
    /\ pc = "fetched"
    /\ (variant = "rss1" \/ changes # <<>>)
    /\ \E sorted \in SortOutcomes(Filtered(variant, project, changes)) :
         LET sel == Selection(variant, project, now, changes, sorted)
         IN  /\ filteredChanges' = sel.filtered
             /\ sortedChanges' = sel.sorted
             /\ uniqueChanges' = sel.unique
             /\ recentChanges' = sel.recent
             /\ changesToNotify' = sel.notify
             /\ labels' = sel.labels
             /\ totalRecent' = IF variant \in ListVariants
                               THEN totalRecent + Len(sel.recent)
                               ELSE totalRecent
    /\ pc' = "selected"
    /\ UNCHANGED <<conf, projects, pidx, project, compVars, changes, sendVars,
                   faults, totalSent, results, netCalls, responses>>

\* for (const change of changesToNotify): the first send, if any
StartSends ==
    /\ pc = "selected"
    /\ IF changesToNotify = <<>>
       THEN pc' = "loopDone" /\ UNCHANGED <<sidx, attempts, netCalls, results>>
       ELSE IF RenderThrows(variant, changesToNotify[1])
       THEN /\ results' = Append(results, FailResult(project, "TypeError"))
            /\ pc' = "loop"
            /\ UNCHANGED <<sidx, attempts, netCalls>>
       ELSE /\ sidx' = 1
            /\ attempts' = 1
            /\ netCalls' = netCalls + 1
            /\ pc' = "send"
            /\ UNCHANGED results
    /\ UNCHANGED <<conf, projects, pidx, project, compVars, selOut, sentCount,
                   outcomes, faults, totalSent, totalRecent, responses>>

\* the messaging endpoint answered 2xx; json: its body parses as JSON
SendOk(json) ==
    /\ pc = "send"
    /\ IF variant = "webhook"
       THEN Abort(WebhookSent, TRUE, {})
       ELSE IF variant = "rss2" /\ ~json
       THEN Abort(ErrorResponse(500, "RSS check failed"), TRUE, {"send failed"})
       ELSE Proceed(TRUE, {})
    /\ UNCHANGED <<conf, projects, pidx, project, compVars, selOut,
                   totalRecent>>

\* the messaging endpoint answered non-2xx
SendRejected(json) ==
    /\ pc = "send"
    /\ IF variant = "webhook"
       THEN Abort(ErrorResponse(500, IF json THEN "Telegram API failed"
                                     ELSE "Internal server error"),
                  FALSE, {"send failed"})
       ELSE IF variant = "rss2"
       THEN Abort(ErrorResponse(500, IF json THEN "Telegram API failed"
                                     ELSE "RSS check failed"),
                  FALSE, {"send failed"})
       ELSE IF variant = "multi" /\ ~json
       THEN Caught("Unexpected token", {"send failed"})
       ELSE Proceed(FALSE, {"send failed"})
    /\ UNCHANGED <<conf, projects, pidx, project, compVars, selOut,
                   totalRecent>>

\* the POST itself failed (network error)
SendThrows ==
    /\ pc = "send"
    /\ IF variant = "webhook"
       THEN Abort(ErrorResponse(500, "Internal server error"), FALSE,
                  {"send failed"})
       ELSE IF variant \in FeedVariants
       THEN Abort(ErrorResponse(500, "RSS check failed"), FALSE,
                  {"send failed"})
       ELSE IF variant = "multi"
       THEN Caught("fetch failed", {"send failed"})
       ELSE Proceed(FALSE, {"send failed"})
    /\ UNCHANGED <<conf, projects, pidx, project, compVars, selOut,
                   totalRecent>>

\* the messaging endpoint never answers: no timer is armed, the await of the
\* POST never resumes
SendStalls ==
    /\ pc = "send"
    /\ pc' = "hung"
    /\ UNCHANGED <<conf, projects, pidx, project, compVars, selOut, sendVars,
                   faults, totalSent, totalRecent, results, netCalls,
                   responses>>

\* the positions at which the handler awaits the network
Awaiting == {"subscriptions", "components", "componentFetch", "fetch", "send"}

\* an awaited call takes long enough for the invocation to pass the soft
\* deadline; no handler reads the elapsed time, so nothing else changes
DeadlinePasses ==
    /\ pc \in Awaiting
    /\ ~overdue
    /\ overdue' = TRUE
    /\ UNCHANGED <<variant, env, request, now, script, earlier, projects,
                   pidx, project, compVars, selOut, sendVars, faults,
                   totalSent, totalRecent, results, netCalls, responses, pc>>

\* after the send loop: the project's result (the feed's response)
PushResult ==
    /\ pc = "loopDone"
    /\ IF variant = "rss2"
       THEN /\ Respond(FeedSummary("rss2", Len(changesToNotify), Len(recentChanges)))
            /\ UNCHANGED results
       ELSE IF variant = "rss1"
       THEN /\ Respond(FeedSummary("rss1", Len(recentChanges), 0))
            /\ UNCHANGED results
       ELSE /\ results' = Append(results,
                  DoneResult(project, sentCount, Len(recentChanges),
                             IF variant = "component" THEN Len(uniqueChanges)
                             ELSE Len(changes)))
            /\ pc' = "loop"
            /\ UNCHANGED responses
    /\ UNCHANGED <<conf, projects, pidx, project, compVars, selOut, sendVars,
                   faults, totalSent, totalRecent, netCalls>>

Next ==
    \/ Start
    \/ \E list \in SubscriptionLists : SubscriptionsOk(list)
    \/ SubscriptionsFail
    \/ BeginProject
    \/ Summarize
    \/ \E list \in ComponentLists : ComponentsOk(list)
    \/ \E thrown \in BOOLEAN : ComponentsFail(thrown)
    \/ \E batch \in FetchBatches : ComponentFetchOk(batch)
    \/ \E thrown \in BOOLEAN : ComponentFetchFail(thrown)
    \/ \E batch \in FetchBatches : FetchOk(batch)
    \/ FetchRejected
    \/ FetchThrows
    \/ NoChanges
    \/ Select
    \/ StartSends
    \/ \E json \in BOOLEAN : SendOk(json)
    \/ \E json \in BOOLEAN : SendRejected(json)
    \/ SendThrows
    \/ SendStalls
    \/ DeadlinePasses
    \/ PushResult

Spec == Init /\ [][Next]_vars

----------------------------------------------------------------------------
(* The selection step on its own: every batch, from the fetched batch to    *)
(* changesToNotify                                                         *)

SelInit ==
    /\ variant \in PollVariants
    /\ env = [token |-> TRUE, chat |-> TRUE, apiKey |-> TRUE, secret |-> ""]
    /\ request = [method |-> "GET", secret |-> "", query |-> "", body |-> "none"]
    /\ now \in RefTimes
    /\ overdue = FALSE
    /\ script = NoScript
    /\ earlier = <<>>
    /\ projects = <<Metrolist(variant)>>
    /\ pidx = 1
    /\ project = Metrolist(variant)
    /\ componentSlugs = <<>>
    /\ cidx = 0
    /\ changes \in Batches(now)
    /\ filteredChanges = <<>>
    /\ sortedChanges = <<>>
    /\ uniqueChanges = <<>>
    /\ recentChanges = <<>>
    /\ changesToNotify = <<>>
    /\ labels = <<>>
    /\ sidx = 0
    /\ attempts = 0
    /\ sentCount = 0
    /\ outcomes = <<>>
    /\ faults = <<{}>>
    /\ totalSent = 0
    /\ totalRecent = 0
    /\ results = <<>>
    /\ netCalls = 1
    /\ responses = <<>>
    /\ pc = "fetched"

SelNext == Select

SelSpec == SelInit /\ [][SelNext]_vars

----------------------------------------------------------------------------
(* The filters on their own: descriptors with and without componentFilter  *)
(* and languageFilter, batches of records that differ in their references  *)

ComponentOwnNoSlash ==
    <<"https:", "", "hosted.weblate.org", "projects", "metrolist", "morse-app">>

\* a detail URL that ends with a language code
ChangeUrlTr ==
    <<"https:", "", "hosted.weblate.org", "translate", "metrolist", "app", "tr", "">>

FilterPool ==
    { Change(1, 4),
      [Change(2, 4) EXCEPT !.translation = TranslationTr],
      [Change(3, 4) EXCEPT !.translation = <<>>],
      [Change(4, 4) EXCEPT !.translation = <<>>, !.url = ChangeUrlTr],
      [Change(5, 4) EXCEPT !.component = ComponentForeign],
      [Change(6, 4) EXCEPT !.component = ComponentOwnNoSlash],
      [Change(7, 4) EXCEPT !.component = <<>>] }

FilterBatches == SeqsUpTo(FilterPool, MaxBatch) \ {<<>>}

FilterDescriptors(v) ==
    { [Metrolist(v) EXCEPT !.languageFilter = lf, !.componentFilter = cf] :
        lf \in {{}, {"en"}, {"en", "tr"}},
        cf \in {{}, {"app"}, {"website", "morse-app"}} }

FilterInit ==
    /\ variant \in {"filter", "component"}
    /\ env = [token |-> TRUE, chat |-> TRUE, apiKey |-> TRUE, secret |-> ""]
    /\ request = [method |-> "GET", secret |-> "", query |-> "", body |-> "none"]
    /\ now = 5
    /\ overdue = FALSE
    /\ script = NoScript
    /\ earlier = <<>>
    /\ project \in FilterDescriptors(variant)
    /\ projects = <<project>>
    /\ pidx = 1
    /\ componentSlugs = (IF variant = "component" THEN <<"app">> ELSE <<>>)
    /\ cidx = (IF variant = "component" THEN 1 ELSE 0)
    /\ changes \in FilterBatches
    /\ filteredChanges = <<>>
    /\ sortedChanges = <<>>
    /\ uniqueChanges = <<>>
    /\ recentChanges = <<>>
    /\ changesToNotify = <<>>
    /\ labels = <<>>
    /\ sidx = 0
    /\ attempts = 0
    /\ sentCount = 0
    /\ outcomes = <<>>
    /\ faults = <<{}>>
    /\ totalSent = 0
    /\ totalRecent = 0
    /\ results = <<>>
    /\ netCalls = 1
    /\ responses = <<>>
    /\ pc = "fetched"

FilterNext == Select

FilterSpec == FilterInit /\ [][FilterNext]_vars

----------------------------------------------------------------------------
(* Two invocations one after the other, the network giving the second the  *)
(* answers it gave the first: one project, one fetch, the sends             *)

TwiceVariants == {"multi", "filter", "rss2"}

TwiceInit ==
    /\ variant \in TwiceVariants
    /\ env \in Environments(variant)
    /\ request \in Requests(variant)
    /\ now \in RefTimes
    /\ overdue = FALSE
    /\ script \in Scripts
    /\ earlier = <<>>
    /\ projects = (IF variant \in FeedVariants THEN <<>>
                   ELSE <<Metrolist(variant)>>)
    /\ pidx = 0
    /\ project = Metrolist(variant)
    /\ componentSlugs = <<>>
    /\ cidx = 0
    /\ changes = <<>>
    /\ filteredChanges = <<>>
    /\ sortedChanges = <<>>
    /\ uniqueChanges = <<>>
    /\ recentChanges = <<>>
    /\ changesToNotify = <<>>
    /\ labels = <<>>
    /\ sidx = 0
    /\ attempts = 0
    /\ sentCount = 0
    /\ outcomes = <<>>
    /\ faults = <<>>
    /\ totalSent = 0
    /\ totalRecent = 0
    /\ results = <<>>
    /\ netCalls = 0
    /\ responses = <<>>
    /\ pc = "start"

\* the answer to the network call in flight: the first call of an invocation
\* is the fetch, the calls after it are the sends
Answered ==
    IF netCalls = 1 THEN script.fetch
    ELSE IF netCalls - 1 \in 1..Len(script.sends) THEN script.sends[netCalls - 1]
    ELSE Answer("none", <<>>, TRUE)

\* a handler that kept its counters and its result list at module level would
\* enter with what the invocation before left in them
ModuleLevelState(left) == left

\* let totalSent = 0; let totalRecent = 0; const results = []: declared inside
\* the handler, so every invocation enters with new ones
HandlerLocals(left) == [totalSent |-> 0, totalRecent |-> 0, results |-> <<>>]

\* the platform calls the handler again: same request, same environment,
\* same reference time, the network answering as before
Reinvoke ==
    /\ pc = "done"
    /\ earlier = <<>>
    /\ earlier' = <<[sends |-> outcomes, response |-> responses[Len(responses)]]>>
    /\ LET entry == HandlerLocals([totalSent |-> totalSent,
                                   totalRecent |-> totalRecent,
                                   results |-> results])
       IN  /\ totalSent' = entry.totalSent
           /\ totalRecent' = entry.totalRecent
           /\ results' = entry.results
    /\ pidx' = 0
    /\ project' = Metrolist(variant)
    /\ changes' = <<>>
    /\ filteredChanges' = <<>>
    /\ sortedChanges' = <<>>
    /\ uniqueChanges' = <<>>
    /\ recentChanges' = <<>>
    /\ changesToNotify' = <<>>
    /\ labels' = <<>>
    /\ sidx' = 0
    /\ attempts' = 0
    /\ sentCount' = 0
    /\ outcomes' = <<>>
    /\ faults' = <<>>
    /\ netCalls' = 0
    /\ responses' = <<>>
    /\ pc' = "start"
    /\ UNCHANGED <<variant, env, request, now, overdue, script, projects,
                   compVars>>

TwiceNext ==
    \/ Start
    \/ BeginProject
    \/ Summarize
    \/ Answered.kind = "ok" /\ FetchOk(Answered.batch)
    \/ Answered.kind = "rejected" /\ FetchRejected
    \/ Answered.kind = "throws" /\ FetchThrows
    \/ NoChanges
    \/ Select
    \/ StartSends
    \/ Answered.kind = "ok" /\ SendOk(Answered.json)
    \/ Answered.kind = "rejected" /\ SendRejected(Answered.json)
    \/ Answered.kind = "throws" /\ SendThrows
    \/ PushResult
    \/ Reinvoke

TwiceSpec == TwiceInit /\ [][TwiceNext]_vars

----------------------------------------------------------------------------
(* One project from its fetched change list to its result: batches of up   *)
(* to CapBatch plain records, any of them inside the window                *)

ProjectBatches(t) == PlainBatches(t) \cup (FetchBatches \ {<<>>})

ProjectInit ==
    /\ variant \in ListVariants
    /\ env = [token |-> TRUE, chat |-> TRUE, apiKey |-> TRUE, secret |-> ""]
    /\ request = [method |-> "GET", secret |-> "", query |-> "", body |-> "none"]
    /\ now = 5
    /\ overdue = FALSE
    /\ script = NoScript
    /\ earlier = <<>>
    /\ project = Metrolist(variant)
    /\ projects = <<project>>
    /\ pidx = 1
    /\ componentSlugs = (IF variant = "component" THEN <<"app">> ELSE <<>>)
    /\ cidx = (IF variant = "component" THEN 1 ELSE 0)
    /\ changes \in ProjectBatches(now)
    /\ filteredChanges = <<>>
    /\ sortedChanges = <<>>
    /\ uniqueChanges = <<>>
    /\ recentChanges = <<>>
    /\ changesToNotify = <<>>
    /\ labels = <<>>
    /\ sidx = 0
    /\ attempts = 0
    /\ sentCount = 0
    /\ outcomes = <<>>
    /\ faults = <<{}>>
    /\ totalSent = 0
    /\ totalRecent = 0
    /\ results = <<>>
    /\ netCalls = 1
    /\ responses = <<>>
    /\ pc = "fetched"

ProjectNext ==
    \/ Select
    \/ StartSends
    \/ \E json \in BOOLEAN : SendOk(json)
    \/ \E json \in BOOLEAN : SendRejected(json)
    \/ SendThrows
    \/ PushResult

ProjectSpec == ProjectInit /\ [][ProjectNext]_vars

----------------------------------------------------------------------------
(* The send loop on its own: one project whose selection is any one or two *)
(* records of the rendering pool                                           *)

NewTranslation ==
    <<"N", "e", "w", " ", "t", "r", "a", "n", "s", "l", "a", "t", "i",
      "o", "n">>

TranslationChanged ==
    <<"T", "r", "a", "n", "s", "l", "a", "t", "i", "o", "n", " ", "c",
      "h", "a", "n", "g", "e", "d">>

ResourceUpdated ==
    <<"R", "e", "s", "o", "u", "r", "c", "e", " ", "u", "p", "d", "a",
      "t", "e", "d">>

Merged ==
    <<"M", "e", "r", "g", "e", "d">>

\* action names matching several keys, one key, none; empty and absent
ActionNames ==
    { NewTranslation, TranslationChanged, ResourceUpdated, CommentAdded,
      Merged, <<>>, Undefined }

\* target texts around the limit of 100 characters; empty and absent
TargetTexts ==
    { Text(1), Text(TargetLimit - 1), Text(TargetLimit), Text(TargetLimit + 1),
      Text(TargetLimit + 5), <<>>, Undefined }

\* records that differ from the plain record in one field
RenderPool ==
    { [Change(1, 4) EXCEPT !.action_name = a] : a \in ActionNames }
    \cup { [Change(1, 4) EXCEPT !.target = t] : t \in TargetTexts }
    \cup { [Change(1, 4) EXCEPT !.user = <<>>],
           [Change(1, 4) EXCEPT !.component = <<>>],
           [Change(1, 4) EXCEPT !.component = <<>>, !.user = <<>>,
                                !.action_name = Undefined,
                                !.target = Undefined] }

RenderBatches ==
    { <<a>> : a \in RenderPool }
    \cup { <<a, [b EXCEPT !.id = 2]>> : a, b \in RenderPool }

RenderInit ==
    /\ variant \in ListVariants
    /\ env = [token |-> TRUE, chat |-> TRUE, apiKey |-> TRUE, secret |-> ""]
    /\ request = [method |-> "GET", secret |-> "", query |-> "", body |-> "none"]
    /\ now = 5
    /\ overdue = FALSE
    /\ script = NoScript
    /\ earlier = <<>>
    /\ projects = <<Metrolist(variant)>>
    /\ pidx = 1
    /\ project = Metrolist(variant)
    /\ componentSlugs = <<>>
    /\ cidx = 0
    /\ changes \in RenderBatches
    /\ filteredChanges = (IF variant \in {"filter", "component"} THEN changes ELSE <<>>)
    /\ sortedChanges = (IF variant = "component" THEN changes ELSE <<>>)
    /\ uniqueChanges = (IF variant = "component" THEN changes ELSE <<>>)
    /\ recentChanges = changes
    /\ changesToNotify = changes
    /\ labels = Labels(changes, changes)
    /\ sidx = 0
    /\ attempts = 0
    /\ sentCount = 0
    /\ outcomes = <<>>
    /\ faults = <<{}>>
    /\ totalSent = 0
    /\ totalRecent = Len(changes)
    /\ results = <<>>
    /\ netCalls = 1
    /\ responses = <<>>
    /\ pc = "selected"

RenderNext ==
    \/ StartSends
    \/ \E json \in BOOLEAN : SendOk(json)
    \/ \E json \in BOOLEAN : SendRejected(json)
    \/ SendThrows
    \/ PushResult

RenderSpec == RenderInit /\ [][RenderNext]_vars

----------------------------------------------------------------------------
(* Properties of the selection step (checked under SelSpec) *)

\* c is older than the window of the running variant
TooOld(c) == c.timestamp # BadDate /\ now - c.timestamp > Window(variant)

\* c is inside the window of the running variant
Fresh(c) == c.timestamp # BadDate /\ now - c.timestamp <= Window(variant)

NoneFresh(s) == \A i \in 1..Len(s) : ~Fresh(s[i])

AllParsable(s) == \A i \in 1..Len(s) : s[i].timestamp # BadDate

\* C1: a record chosen for notification is older than the window only when
\* no record of the filtered batch is inside the window and the fallback
\* chose that single record
C1_OnlyFreshUnlessFallback ==
    pc = "selected" =>
        \A i \in 1..Len(changesToNotify) :
            TooOld(changesToNotify[i]) =>
                /\ NoneFresh(Candidates)
                /\ recentChanges = <<>>
                /\ Len(changesToNotify) = 1

\* the recent path ran on a batch that also holds a record older than the
\* window
C1_Witness ==
    /\ pc = "selected"
    /\ Len(changesToNotify) >= 2
    /\ \E i \in 1..Len(Candidates) : TooOld(Candidates[i])
    /\ \E i \in 1..Len(Candidates) : now - Candidates[i].timestamp = Window(variant)

\* C2: at most maxNotify (5) records are chosen for one project in one pass,
\* on the recent path and on the fallback path
C2_AtMostMaxNotify ==
    pc = "selected" => Len(changesToNotify) <= MaxNotify(variant)

\* more than five fetched records are inside the window and five are chosen
C2_Witness ==
    /\ pc = "selected"
    /\ variant \in ListVariants
    /\ Cardinality({ i \in 1..Len(changes) : Fresh(changes[i]) }) > MaxNotify(variant)
    /\ Len(changesToNotify) = MaxNotify(variant)

\* C3: the records chosen for notification are ordered newest-first,
\* whatever the order of the source and also with repeated ids
C3_NewestFirst ==
    (pc = "selected" /\ AllParsable(changes)) =>
        \A i, j \in 1..Len(changesToNotify) :
            i < j => changesToNotify[i].timestamp >= changesToNotify[j].timestamp

\* C4: with a non-empty filtered batch and nothing inside the window, exactly
\* one record is chosen, it is the newest of the filtered batch and its
\* message is labelled non-recent; with a record inside the window no message
\* is labelled non-recent
C4_FallbackIsNewest ==
    (pc = "selected" /\ variant # "rss1" /\ AllParsable(changes)) =>
        /\ (Candidates # <<>> /\ NoneFresh(Candidates)) =>
              /\ Len(changesToNotify) = 1
              /\ \A i \in 1..Len(Candidates) :
                    changesToNotify[1].timestamp >= Candidates[i].timestamp
              /\ labels = <<TitleLabel(FALSE)>>
        /\ ~NoneFresh(Candidates) =>
              \A i \in 1..Len(labels) : labels[i] # TitleLabel(FALSE)

\* the records of s that no earlier record of s shares its id with
RECURSIVE KeepFirst(_, _)
KeepFirst(seen, s) ==
    IF s = <<>> THEN <<>>
    ELSE IF Head(s).id \in seen
         THEN KeepFirst(seen, Tail(s))
         ELSE <<Head(s)>> \o KeepFirst(seen \cup {Head(s).id}, Tail(s))

\* C5: deduplication retains, for each id, the record at the lowest input
\* position carrying it, with all its fields, in input order
C5_DedupKeepsFirst ==
    (pc = "selected" /\ variant = "component" /\ AllParsable(changes)) =>
        uniqueChanges = KeepFirst({}, sortedChanges)

\* C6: deduplication applied to its own output returns it unchanged
C6_DedupIdempotent ==
    (pc = "selected" /\ variant = "component") =>
        UniqueChanges(uniqueChanges) = uniqueChanges

\* the deduplication removed the repeats of an id that occurred three times
C6_Witness ==
    /\ pc = "selected"
    /\ variant = "component"
    /\ Len(sortedChanges) = 3
    /\ Len(uniqueChanges) = 1

----------------------------------------------------------------------------
(* Properties of the handlers (checked under Spec) *)

\* C7: a send that fails is retried: notify gives a message up (sent =
\* false) only after more than one attempt
C7_RetriedOnFailure ==
    variant \in HelperVariants =>
        \A i \in 1..Len(outcomes) :
            ~outcomes[i].sent => outcomes[i].attempts > 1

\* C8: a send whose endpoint never answers is abandoned, so a poll handler
\* can always take a step until it has written its response
C8_NeverStuck == (variant \in PollVariants /\ pc # "done") => ENABLED Next

\* C9: in the summary of a project list, a project that met a failure
\* (fetch non-2xx or thrown, send failed or thrown) has success = false and
\* an error, every project has its result, and the status is 200
C9_FailureIsolated ==
    (pc = "done" /\ variant \in {"subs", "component"} /\ env.token /\ env.chat
       /\ (variant = "subs" => env.apiKey) /\ projects # <<>>) =>
        /\ responses[1].status = 200
        /\ Len(responses[1].projects) = Len(projects)
        /\ \A i \in 1..Len(projects) :
              faults[i] # {} =>
                  /\ ~responses[1].projects[i].success
                  /\ responses[1].projects[i].error # ""

\* the invocations C10 is about: token or chat id missing, and a POST when
\* the entry point is the webhook
C10_Case ==
    /\ ~env.token \/ ~env.chat
    /\ variant = "webhook" => request.method = "POST"

\* C10 as stated: 500 'Missing configuration', no network call, and the body
\* of every poll variant carries has_token and has_chat_id
C10_AllPollBodiesCarryFlags ==
    C10_Case =>
        /\ netCalls = 0
        /\ pc = "done" =>
              /\ responses[1].status = 500
              /\ responses[1].error = "Missing configuration"
              /\ variant # "webhook" =>
                    /\ {"has_token", "has_chat_id"} \subseteq responses[1].keys
                    /\ responses[1].has_token = env.token
                    /\ responses[1].has_chat_id = env.chat

\* C10 (amended): 500 'Missing configuration' and no network call at any
\* point; has_token and has_chat_id are carried by every poll variant but
\* "rss1", whose body, like the webhook's, holds the error alone
C10_MissingConfiguration ==
    C10_Case =>
        /\ netCalls = 0
        /\ pc \in {"start", "done"}
        /\ pc = "done" =>
              /\ Len(responses) = 1
              /\ responses[1].status = 500
              /\ responses[1].error = "Missing configuration"
              /\ IF variant \in {"webhook", "rss1"}
                 THEN responses[1].keys = {"error"}
                 ELSE /\ responses[1].keys = {"error", "has_token", "has_chat_id"}
                      /\ responses[1].has_token = env.token
                      /\ responses[1].has_chat_id = env.chat

\* a poll handler answered with only the token missing
C10_Witness ==
    /\ pc = "done"
    /\ variant = "subs"
    /\ ~env.token
    /\ env.chat
    /\ Len(responses) = 1
    /\ responses[1].status = 500

\* the messages of the catch blocks that wrap a whole handler
GlobalCatchErrors == {"RSS check failed", "Check failed"}

\* C11: a poll handler answers 200 with a breakdown whatever fetches and
\* sends came to; it answers 500 only for missing configuration or for an
\* exception that no per-project catch took
C11_Always200 ==
    (pc = "done" /\ variant \in PollVariants) =>
        \/ responses[1].status = 200 /\ "success" \in responses[1].keys
        \/ /\ responses[1].status = 500
           /\ responses[1].error \in
                 {"Missing configuration", "Missing WEBLATE_API_KEY"}
                 \cup GlobalCatchErrors

\* C12: once the invocation is past the soft deadline, the project loop
\* starts no further project: no fetch is issued from the head of the loop
C12_SoftDeadline ==
    [][(overdue /\ pc = "loop") => netCalls' = netCalls]_vars

\* C13: a project (a feed) whose change source answered non-2xx is reported
\* with success = false and an error, never as a successful pass
C13_RejectedFetchIsError ==
    (pc = "done" /\ variant \in PollVariants /\ env.token /\ env.chat) =>
        \A i \in 1..Len(faults) :
            "fetch rejected" \in faults[i] =>
                IF variant \in FeedVariants
                THEN ~responses[1].success /\ responses[1].error # ""
                ELSE /\ i <= Len(results)
                     /\ ~results[i].success
                     /\ results[i].error # ""

----------------------------------------------------------------------------
(* Properties of the send loop and of the rendered messages (checked under *)
(* RenderSpec)                                                             *)

\* C14: a record with a missing field does not abort the batch: when no
\* send failed, every record chosen for the project was attempted
C14_BadRecordKeepsBatch ==
    (pc = "loop" /\ faults[1] = {}) =>
        /\ Len(outcomes) = Len(changesToNotify)
        /\ results[1].success

\* the emojis of the longest keys of the variant's table found in the
\* lower-cased action name; the default when no key is found
LongestMatchEmojis(v, name) ==
    LET action == ToLowerCase(IF name = Undefined THEN <<>> ELSE name)
        table == ActionTable(v)
        hits == { i \in 1..Len(table) : TextIncludes(action, table[i].key) }
    IN  IF hits = {} THEN {"bolt"}
        ELSE { table[i].emoji :
                 i \in { h \in hits : \A j \in hits :
                                        Len(table[j].key) <= Len(table[h].key) } }

\* C18: the action label of every rendered message is the one of the
\* longest table key contained in the lower-cased action name, the default
\* when none is contained
C18_LongestKeyWins ==
    \A i \in 1..Len(outcomes) :
        outcomes[i].message.actionEmoji
            \in LongestMatchEmojis(variant, changesToNotify[i].action_name)

\* C19: the message holds a target of at most 100 characters unchanged, and
\* of a longer one exactly the first 100 characters followed by '...'
C19_TargetTruncation ==
    \A i \in 1..Len(outcomes) :
        LET target == changesToNotify[i].target
            shown == outcomes[i].message.target
        IN  IF target = Undefined THEN shown = <<>>
            ELSE IF Len(target) <= 100 THEN shown = target
            ELSE /\ Len(shown) = 103
                 /\ \A k \in 1..100 : shown[k] = target[k]
                 /\ \A k \in 101..103 : shown[k] = "."

\* messages were sent for a target of 101 characters and for one of
\* exactly 100
C19_Witness ==
    /\ Len(outcomes) = 2
    /\ Len(changesToNotify[1].target) = 101
    /\ Len(changesToNotify[2].target) = 100
    /\ outcomes[1].sent

----------------------------------------------------------------------------
(* Properties of the handlers, continued (checked under Spec) *)

\* C15: the webhook answers a request whose method is not POST with 405,
\* whatever the configuration, the secret and the body, and sends nothing
C15_NonPostIs405 ==
    (variant = "webhook" /\ request.method # "POST") =>
        /\ netCalls = 0
        /\ outcomes = <<>>
        /\ pc \in {"start", "done"}
        /\ pc = "done" =>
              /\ Len(responses) = 1
              /\ responses[1].status = 405
              /\ responses[1].error = "Method not allowed"

\* a PUT with a payload and a wrong secret, to a webhook without its token,
\* was answered
C15_Witness ==
    /\ variant = "webhook"
    /\ request = [method |-> "PUT", secret |-> "wrong", query |-> "",
                  body |-> "payload"]
    /\ ~env.token
    /\ env.secret = "s3cret"
    /\ pc = "done"
    /\ responses[1].status = 405

\* the sends of a project so far went out one after the other, the i-th of
\* them for the i-th chosen record
C20_InSelectionOrder ==
    /\ Len(outcomes) <= Len(changesToNotify)
    /\ sidx \in {Len(outcomes), Len(outcomes) + 1}
    /\ pc = "send" => sidx = Len(outcomes) + 1
    /\ \A i \in 1..Len(outcomes) : outcomes[i].id = changesToNotify[i].id

\* the messages the endpoint has seen run from newer to older
C20_ObservedNewestFirst ==
    \A i, j \in 1..Len(outcomes) :
        i < j => changesToNotify[i].timestamp >= changesToNotify[j].timestamp

\* C20: within a project the sends go out one at a time, the next one after
\* the outcome of the one before, in the order of the selection, which is
\* newest-first
C20_SequentialNewestFirst ==
    variant \in ListVariants =>
        C20_InSelectionOrder /\ C20_ObservedNewestFirst

----------------------------------------------------------------------------
(* Properties of the filters (checked under FilterSpec) *)

\* the name of the component a reference ends with, with or without a
\* trailing '/'
NamedComponent(ref) == LastNonEmpty(ref)

\* what C16 has the component filter keep
C16_Keeps(p, c) ==
    /\ ComponentProjectSlug(c.component) \in {NoMatch, p.slug}
    /\ p.componentFilter # {} =>
          \E allowed \in p.componentFilter :
              Includes(NamedComponent(c.component), allowed)

\* C16: the component filter retains no record of another project's slug
\* and, with a componentFilter, exactly the records whose component name
\* (the last segment naming the component, also before a trailing '/')
\* contains an allowed substring
C16_ComponentFilter ==
    (pc = "selected" /\ variant = "filter" /\ project.languageFilter = {}) =>
        filteredChanges = SelectSeq(changes, LAMBDA c : C16_Keeps(project, c))

\* the records the language step of the running variant reads
LanguageInput ==
    IF variant = "filter" THEN ComponentFilter(project, changes) ELSE changes

\* C17: with a languageFilter, a record without an extractable code is kept,
\* one whose code is in the filter is kept, one whose code is not in it is
\* dropped; without a languageFilter the step drops nothing
C17_LanguageFailOpen ==
    (pc = "selected" /\ variant \in {"filter", "component"}) =>
        filteredChanges =
            SelectSeq(LanguageInput,
                      LAMBDA c : \/ project.languageFilter = {}
                                 \/ ChangeLang(c) = NoMatch
                                 \/ ChangeLang(c) \in project.languageFilter)

\* a languageFilter ['en'] met a record without a code, an 'en' record and a
\* 'tr' record and kept the first two
C17_Witness ==
    /\ pc = "selected"
    /\ project.languageFilter = {"en"}
    /\ Len(LanguageInput) = 3
    /\ Len(filteredChanges) = 2
    /\ \E i \in 1..3 : ChangeLang(LanguageInput[i]) = NoMatch
    /\ \E i \in 1..3 : ChangeLang(LanguageInput[i]) = "tr"
    /\ \E i \in 1..2 : ChangeLang(filteredChanges[i]) = NoMatch

----------------------------------------------------------------------------
(* Properties of two invocations in a row (checked under TwiceSpec) *)

\* C21: an invocation that meets the data, the reference time and the
\* endpoint answers of the one before issues the same sends and returns the
\* same summary; what the earlier one sent is sent again
C21_Stateless ==
    (pc = "done" /\ earlier # <<>>) =>
        /\ Len(responses) = 1
        /\ earlier[1] = [sends |-> outcomes, response |-> responses[1]]

\* both invocations notified the same two changes and counted two
C21_Witness ==
    /\ pc = "done"
    /\ earlier # <<>>
    /\ Len(earlier[1].sends) = 2
    /\ \A i \in 1..2 : earlier[1].sends[i].sent /\ outcomes[i].sent
    /\ earlier[1].response.total_notifications = 2
    /\ responses[1].total_notifications = 2

----------------------------------------------------------------------------
(* Properties of the summaries and of the responses (checked under Spec) *)

\* the sum of the sent counts ('changes') of the entries of a result list; an
\* entry without the key adds nothing
RECURSIVE SumOfChanges(_)
SumOfChanges(res) ==
    IF res = <<>> THEN 0
    ELSE SumOfChanges(Tail(res))
         + (IF "changes" \in Head(res).keys THEN Head(res).changes ELSE 0)

\* C22: in every 200 summary total_notifications is the sum of the sent
\* counts of the entries of 'projects', whatever failed
C22_TotalIsSum ==
    (pc = "done" /\ variant \in ListVariants /\ responses[1].status = 200) =>
        responses[1].total_notifications = SumOfChanges(responses[1].projects)

\* C23: the summary holds one result per project of the list the handler
\* iterates, in the order of that list, whichever path each project took
C23_OneResultPerProject ==
    (pc = "done" /\ variant \in ListVariants /\ responses[1].status = 200) =>
        /\ Len(responses[1].projects) = Len(projects)
        /\ \A i \in 1..Len(projects) :
               responses[1].projects[i].project = projects[i].displayName

\* two projects: the first met a rejected fetch or an exception, the second
\* an empty change list
C23_Witness ==
    /\ pc = "done"
    /\ variant \in ListVariants
    /\ Len(projects) = 2
    /\ responses[1].status = 200
    /\ ~responses[1].projects[1].success
    /\ responses[1].projects[2] = EmptyResult(projects[2])

\* C24: the webhook sends at most one message per request, and only for a
\* POST with bot token and chat id present and with no secret configured or
\* the provided one (header, else query parameter) equal to it; a POST that
\* passes the configuration check with another secret gets 403; 200 comes
\* only after a 2xx of the messaging endpoint, and a non-2xx gives 500
C24_WebhookSendsOnce ==
    variant = "webhook" =>
        LET provided == IF request.secret # "" THEN request.secret
                        ELSE request.query
            admitted == /\ request.method = "POST"
                        /\ env.token /\ env.chat
            send == {"send", "hung"}
        IN  /\ netCalls <= 1
            /\ Len(outcomes) <= netCalls
            /\ netCalls = 1 =>
                   admitted /\ (env.secret = "" \/ provided = env.secret)
            /\ (pc \notin send /\ pc # "start" /\ admitted /\ env.secret # ""
                    /\ provided # env.secret) =>
                   responses[1].status = 403
            /\ (pc = "done" /\ responses[1].status = 200) =>
                   Len(outcomes) = 1 /\ outcomes[1].sent
            /\ (pc = "done" /\ Len(outcomes) = 1 /\ ~outcomes[1].sent) =>
                   responses[1].status = 500

\* a POST whose header is empty and whose query parameter carries the
\* configured secret was sent on and answered 200
C24_Witness ==
    /\ variant = "webhook"
    /\ pc = "done"
    /\ env.secret = "s3cret"
    /\ request.secret = ""
    /\ request.query = "s3cret"
    /\ netCalls = 1
    /\ outcomes[1].sent
    /\ responses[1].status = 200

\* the sends of the current project that got a 2xx
SendsAccepted == Len(SelectSeq(outcomes, LAMBDA o : o.sent))

\* C25: a send that fails does not stop the sends after it: when a project
\* (the feed) is through, every chosen record was attempted and the sent
\* count is the number of sends that got a 2xx
C25_FailedSendGoesOn ==
    (variant \in PollVariants /\ pc \in {"loop", "done"}) =>
        /\ Len(outcomes) = Len(changesToNotify)
        /\ variant \in ListVariants => sentCount = SendsAccepted

----------------------------------------------------------------------------
(* Properties of a project's result (checked under ProjectSpec) *)

\* C26: a successful result has 0 <= changes <= max(recent, 1), recent <= 5
\* and recent <= total; with recent = 0 at most one message went out and the
\* record it showed is not counted in the total of recent changes
C26_SentWithinSelection ==
    \A i \in 1..Len(results) :
        LET r == results[i]
        IN  (r.success /\ "recent" \in r.keys) =>
               /\ 0 <= r.changes
               /\ r.changes <= (IF r.recent > 1 THEN r.recent ELSE 1)
               /\ r.recent <= 5
               /\ r.recent <= r.total
               /\ totalRecent = r.recent
               /\ r.recent = 0 => Len(outcomes) <= 1

\* six records inside the window: five chosen, four of the sends accepted
C26_Witness ==
    /\ pc = "loop"
    /\ Len(results) = 1
    /\ results[1].success
    /\ results[1].total = 6
    /\ results[1].recent = 5
    /\ results[1].changes = 4

----------------------------------------------------------------------------
(* Properties of the responses (checked under Spec) *)

\* C27: an invocation that terminates has written exactly one response: it
\* never writes a second one, it has written one exactly when it has
\* returned, and at every other position it has a step to take or is in an
\* await of the network
C27_ExactlyOneResponse ==
    /\ Len(responses) <= 1
    /\ pc = "done" <=> Len(responses) = 1
    /\ pc \notin {"done", "hung"} =>
           \/ pc \in Awaiting
           \/ ENABLED (Start \/ BeginProject \/ Summarize \/ NoChanges
                          \/ Select \/ StartSends \/ PushResult)

\* the feed handler answered 500 from inside its send loop and wrote nothing
\* after it
C27_Witness ==
    /\ variant = "rss2"
    /\ pc = "done"
    /\ Len(outcomes) = 1
    /\ ~outcomes[1].sent
    /\ Len(changesToNotify) = 2
    /\ Len(responses) = 1
    /\ responses[1].error = "Telegram API failed"

====
